---- MODULE Spec2Model ----
(***************************************************************************)
(* A model of the book scraper (src/src/scraper.py): the crawl loop of     *)
(* scrape_books as a state machine, and the functions it calls             *)
(* (get_soup, convert_rating_to_number, get_book_details, urljoin) as      *)
(* operators over an abstraction of the markup.                            *)
(*                                                                         *)
(* Markup is abstracted to the elements the code looks up: an optional     *)
(* value is << >> (None) or <<v>>; a text node is [pad, s] where pad says  *)
(* whether it carries surrounding whitespace; a URL is [abs, path] and a   *)
(* reference found in markup is [kind, segs].                              *)
(***************************************************************************)
EXTENDS Integers, Sequences, FiniteSets, TLC

VARIABLES
    max_pages,      \* the argument of scrape_books
    pc,             \* where scrape_books is: "fetch", "items", "returned", "raised"
    page_num,       \* the loop variable of the page loop
    page_url,       \* the URL of the listing page being processed
    book_articles,  \* the item blocks found on the current listing page
    pos,            \* index in book_articles of the next item block
    books,          \* the accumulated list of records
    trace,          \* observable effects in order: requests, sleeps, printed lines
    seen,           \* history: one entry per item block the inner loop has processed
    net,            \* history: every request made and what it met
    unit            \* the last direct call of one of the module's functions

vars == <<max_pages, pc, page_num, page_url, book_articles, pos, books, trace, seen, net, unit>>

crawlVars == <<max_pages, pc, page_num, page_url, book_articles, pos, books, trace, seen, net>>

----------------------------------------------------------------------------
(* Bounds of the model *)

MaxPages == 2

MaxBlocks == 2

(* Program constants *)

REQUEST_TIMEOUT == 10

ITEM_SLEEP_TENTHS == 2

PAGE_SLEEP_TENTHS == 5

----------------------------------------------------------------------------
(* Optional values, text nodes *)

None == << >>

Some(x) == <<x>>

Text(padded, s) == [pad |-> padded, s |-> s]

\* str.strip(): the surrounding whitespace is removed, the body is kept
strip(t) == [pad |-> FALSE, s |-> t.s]

----------------------------------------------------------------------------
(* URLs *)

Url(path) == [abs |-> TRUE, path |-> path]

\* "https://books.toscrape.com/": the empty last segment is the directory's
BASE_URL == Url(<<"">>)

\* "https://books.toscrape.com/catalogue/"
CATALOGUE_URL == Url(<<"catalogue", "">>)

RECURSIVE remove_dot_segments(_, _)
\* urllib's resolution of "." and ".." segments; ".." above the root is dropped
remove_dot_segments(segs, acc) ==
    IF segs = << >> THEN acc
    ELSE LET s == Head(segs)
             last == Len(segs) = 1
         IN  IF s = "."
             THEN remove_dot_segments(Tail(segs), IF last THEN Append(acc, "") ELSE acc)
             ELSE IF s = ".."
             THEN LET up == IF acc = << >> THEN acc ELSE SubSeq(acc, 1, Len(acc) - 1)
                  IN  remove_dot_segments(Tail(segs), IF last THEN Append(up, "") ELSE up)
             ELSE remove_dot_segments(Tail(segs), Append(acc, s))

\* urllib.parse.urljoin(base, ref) for an absolute base
urljoin(base, ref) ==
    IF ref.kind = "absolute" THEN Url(ref.segs)
    ELSE IF ref.kind = "empty" THEN base
    ELSE IF ref.kind = "rooted" THEN Url(remove_dot_segments(ref.segs, << >>))
    ELSE Url(remove_dot_segments(
                 SubSeq(base.path, 1, Len(base.path) - 1) \o ref.segs, << >>))

PageFile == <<"page-1.html", "page-2.html", "page-3.html", "page-4.html">>

\* f"{CATALOGUE_URL}page-{page_num}.html" (both branches of the if build the same URL)
PageUrl(n) ==
    IF n = 1
    THEN Url(SubSeq(CATALOGUE_URL.path, 1, 1) \o <<PageFile[1]>>)
    ELSE Url(SubSeq(CATALOGUE_URL.path, 1, 1) \o <<PageFile[n]>>)

----------------------------------------------------------------------------
(* The network and the parser library, as get_soup sees them *)

\* What one requests.get can meet. transport: "ok", or the exception requests
\* raises (ConnectionError and Timeout are RequestExceptions); status: the HTTP
\* status; parses: whether html.parser accepts the body (it rejects some
\* malformed declarations, and bs4 then raises ParserRejectedMarkup, which is
\* not a RequestException); doc: the document the body parses to.
Response(transport, status, parses, doc) ==
    [transport |-> transport, status |-> status, parses |-> parses, doc |-> doc]

OkResponse(doc) == Response("ok", 200, TRUE, doc)

StatusResponse(status) == Response("ok", status, TRUE, None)

TransportFailure(exc) == Response(exc, 0, TRUE, None)

RejectedResponse == Response("ok", 200, FALSE, None)

Request(url) == [ev |-> "request", url |-> url, timeout |-> REQUEST_TIMEOUT]

Printed(msg) == [ev |-> "print", msg |-> msg]

Slept(tenths) == [ev |-> "sleep", tenths |-> tenths]

\* get_soup without its try/except: the RequestException escapes as well
get_soup_uncaught(url, resp) ==
    IF resp.transport # "ok"
    THEN [ret |-> [kind |-> "raise", exc |-> resp.transport], out |-> <<Request(url)>>]
    ELSE IF resp.status >= 400
    THEN [ret |-> [kind |-> "raise", exc |-> "HTTPError"], out |-> <<Request(url)>>]
    ELSE IF ~resp.parses
    THEN [ret |-> [kind |-> "raise", exc |-> "ParserRejectedMarkup"],
          out |-> <<Request(url)>>]
    ELSE [ret |-> [kind |-> "soup", doc |-> resp.doc],
          out |-> <<Request(url)>>]

\* get_soup returning None without a word
get_soup_silent(url, resp) ==
    IF resp.transport # "ok" \/ resp.status >= 400
    THEN [ret |-> [kind |-> "None"], out |-> <<Request(url)>>]
    ELSE IF ~resp.parses
    THEN [ret |-> [kind |-> "raise", exc |-> "ParserRejectedMarkup"],
          out |-> <<Request(url)>>]
    ELSE [ret |-> [kind |-> "soup", doc |-> resp.doc],
          out |-> <<Request(url)>>]

\* get_soup asking a second time when the first request failed
get_soup_retry(url, resp) ==
    IF resp.transport # "ok"
    THEN [ret |-> [kind |-> "None"],
          out |-> <<Request(url), Request(url),
                    Printed(<<"Error fetching", url, resp.transport>>)>>]
    ELSE IF resp.status >= 400
    THEN [ret |-> [kind |-> "None"],
          out |-> <<Request(url), Request(url),
                    Printed(<<"Error fetching", url, "HTTPError">>)>>]
    ELSE IF ~resp.parses
    THEN [ret |-> [kind |-> "raise", exc |-> "ParserRejectedMarkup"],
          out |-> <<Request(url)>>]
    ELSE [ret |-> [kind |-> "soup", doc |-> resp.doc],
          out |-> <<Request(url)>>]

\* get_soup(url) when the request meets resp: ret is the returned value
\* ([kind |-> "soup"] or [kind |-> "None"]) or the exception that escapes
\* ([kind |-> "raise"]); out is what it did on the way.
get_soup(url, resp) ==
    IF resp.transport # "ok"
    THEN [ret |-> [kind |-> "None"],
          out |-> <<Request(url), Printed(<<"Error fetching", url, resp.transport>>)>>]
    ELSE IF resp.status >= 400
    THEN [ret |-> [kind |-> "None"],
          out |-> <<Request(url), Printed(<<"Error fetching", url, "HTTPError">>)>>]
    ELSE IF ~resp.parses
    THEN [ret |-> [kind |-> "raise", exc |-> "ParserRejectedMarkup"],
          out |-> <<Request(url)>>]
    ELSE [ret |-> [kind |-> "soup", doc |-> resp.doc],
          out |-> <<Request(url)>>]

----------------------------------------------------------------------------
(* convert_rating_to_number *)

RatingTokens == {"One", "Two", "Three", "Four", "Five"}

rating_map ==
    [t \in RatingTokens |->
        CASE t = "One" -> 1
          [] t = "Two" -> 2
          [] t = "Three" -> 3
          [] t = "Four" -> 4
          [] t = "Five" -> 5]

\* rating_map.get(rating_class, -1): a sentinel for the unknown token
convert_rating_to_number_sentinel(rating_class) ==
    IF rating_class # None /\ rating_class[1] \in DOMAIN rating_map
    THEN rating_map[rating_class[1]]
    ELSE -1

\* a lookup by position in a list of the tokens, counted from zero
convert_rating_to_number_from_zero(rating_class) ==
    IF rating_class # None /\ rating_class[1] \in DOMAIN rating_map
    THEN rating_map[rating_class[1]] - 1
    ELSE 0

\* rating_map.get(rating_class, 0); rating_class is None or Some(token)
convert_rating_to_number(rating_class) ==
    IF rating_class # None /\ rating_class[1] \in DOMAIN rating_map
    THEN rating_map[rating_class[1]]
    ELSE 0

----------------------------------------------------------------------------
(* get_book_details *)

\* A detail page: breadcrumb is None or Some(the texts of its links); table is
\* None or Some(rows), a row being [th, td] of optional texts; description is
\* None (no div#product_description), Some(None) (the div with no following
\* <p>) or Some(Some(text)).
DetailDoc(breadcrumb, table, description) ==
    [breadcrumb |-> breadcrumb, table |-> table, description |-> description]

RECURSIVE find_upc(_)
\* the loop over the table's rows: the first row with th and td whose stripped
\* th text is "UPC" gives the stripped td text
find_upc(rows) ==
    IF rows = << >> THEN None
    ELSE LET row == Head(rows)
         IN  IF row.th # None /\ row.td # None /\ strip(row.th[1]).s = "UPC"
             THEN Some(strip(row.td[1]))
             ELSE find_upc(Tail(rows))

parse_category(doc) ==
    IF doc.breadcrumb # None /\ Len(doc.breadcrumb[1]) >= 3
    THEN Some(strip(doc.breadcrumb[1][3]))
    ELSE None

\* the table looked up only inside the breadcrumb's if
parse_upc_under_breadcrumb(doc) ==
    IF doc.breadcrumb # None /\ doc.table # None THEN find_upc(doc.table[1]) ELSE None

parse_upc(doc) ==
    IF doc.table # None THEN find_upc(doc.table[1]) ELSE None

parse_description(doc) ==
    IF doc.description # None /\ doc.description[1] # None
    THEN Some(strip(doc.description[1][1]))
    ELSE None

\* get_book_details(book_url) when the detail request meets resp
get_book_details(book_url, resp) ==
    LET got == get_soup(book_url, resp)
    IN  IF got.ret.kind = "raise"
        THEN [ret |-> got.ret, out |-> got.out]
        ELSE IF got.ret.kind = "None"
        THEN [ret |-> [kind |-> "values", category |-> None, upc |-> None,
                       description |-> None],
              out |-> got.out]
        ELSE [ret |-> [kind |-> "values",
                       category |-> parse_category(got.ret.doc),
                       upc |-> parse_upc(got.ret.doc),
                       description |-> parse_description(got.ret.doc)],
              out |-> got.out]

----------------------------------------------------------------------------
(* The listing extraction of one item block (the try body up to the detail call) *)

\* An item block: link says how far article.find('h3').find('a') gets ("no_h3",
\* "no_a" or "a"); title and href are the optional attributes of that <a>;
\* price_color and instock are the optional <p> texts; star_rating is None or
\* Some(the class list of p.star-rating); img is None or Some([src |-> optional]).
Article(link, title, href, price_color, star_rating, instock, img) ==
    [link |-> link, title |-> title, href |-> href, price_color |-> price_color,
     star_rating |-> star_rating, instock |-> instock, img |-> img]

RECURSIVE first_other_class(_)
\* the loop over the classes: the first one that is not 'star-rating'
first_other_class(classes) ==
    IF classes = << >> THEN None
    ELSE IF Head(classes) # "star-rating" THEN Some(Head(classes))
    ELSE first_other_class(Tail(classes))

rating_class_of(article) ==
    IF article.star_rating # None THEN first_other_class(article.star_rating[1]) ELSE None

image_url_of(article) ==
    IF article.img = None THEN None
    ELSE LET src == article.img[1].src
         IN  Some(urljoin(BASE_URL,
                          IF src = None THEN [kind |-> "empty", segs |-> << >>] ELSE src[1]))

\* extract_listing reading price_tag.text without the "if price_tag" guard
extract_listing_unguarded(article, url) ==
    IF article.link = "no_h3" THEN [ok |-> FALSE, exc |-> "AttributeError"]
    ELSE IF article.link = "no_a" THEN [ok |-> FALSE, exc |-> "TypeError"]
    ELSE IF article.title = None THEN [ok |-> FALSE, exc |-> "KeyError: 'title'"]
    ELSE IF article.href = None THEN [ok |-> FALSE, exc |-> "KeyError: 'href'"]
    ELSE IF article.price_color = None THEN [ok |-> FALSE, exc |-> "AttributeError"]
    ELSE [ok |-> TRUE,
          title |-> article.title[1],
          book_url |-> urljoin(url, article.href[1]),
          price |-> Some(strip(article.price_color[1])),
          rating |-> convert_rating_to_number(rating_class_of(article)),
          availability |-> IF article.instock # None
                           THEN Some(strip(article.instock[1])) ELSE None,
          image_url |-> image_url_of(article)]

\* lines 118-150: the exception the extraction raises, or the listing fields
extract_listing(article, url) ==
    IF article.link = "no_h3" THEN [ok |-> FALSE, exc |-> "AttributeError"]
    ELSE IF article.link = "no_a" THEN [ok |-> FALSE, exc |-> "TypeError"]
    ELSE IF article.title = None THEN [ok |-> FALSE, exc |-> "KeyError: 'title'"]
    ELSE IF article.href = None THEN [ok |-> FALSE, exc |-> "KeyError: 'href'"]
    ELSE [ok |-> TRUE,
          title |-> article.title[1],
          book_url |-> urljoin(url, article.href[1]),
          price |-> IF article.price_color # None
                    THEN Some(strip(article.price_color[1])) ELSE None,
          rating |-> convert_rating_to_number(rating_class_of(article)),
          availability |-> IF article.instock # None
                           THEN Some(strip(article.instock[1])) ELSE None,
          image_url |-> image_url_of(article)]

\* lines 156-166
make_book(stub, details) ==
    [title |-> stub.title, price |-> stub.price, rating |-> stub.rating,
     availability |-> stub.availability, category |-> details.category,
     upc |-> details.upc, description |-> details.description,
     image_url |-> stub.image_url, book_url |-> stub.book_url]

\* books.insert(0, book) in place of books.append(book)
\* the record appended twice
append_book_twice(list, book) == Append(Append(list, book), book)

prepend_book(list, book) == <<book>> \o list

\* books.append(book)
append_book(list, book) == Append(list, book)

\* scrape_article with an except branch that appends a placeholder record
scrape_article_placeholder(article, url, resp) ==
    LET stub == extract_listing(article, url)
    IN  IF ~stub.ok
        THEN [appended |-> Some([title |-> None, price |-> None, rating |-> 0,
                                 availability |-> None, category |-> None, upc |-> None,
                                 description |-> None, image_url |-> None, book_url |-> None]),
              requested |-> FALSE,
              out |-> <<Printed(<<"Error scraping book", stub.exc>>)>>]
        ELSE LET det == get_book_details(stub.book_url, resp)
             IN  IF det.ret.kind = "raise"
                 THEN [appended |-> None, requested |-> TRUE,
                       out |-> det.out \o <<Printed(<<"Error scraping book", det.ret.exc>>)>>]
                 ELSE [appended |-> Some(make_book(stub, det.ret)), requested |-> TRUE,
                       out |-> det.out \o <<Printed(<<"Scraped", stub.title>>),
                                            Slept(ITEM_SLEEP_TENTHS)>>]

\* The whole try/except of the inner loop for one item block, the detail
\* request meeting resp: the record appended (or none), whether the detail
\* request was made, and what was done (the printed title is cut to 50
\* characters in the code; the model prints it whole).
scrape_article(article, url, resp) ==
    LET stub == extract_listing(article, url)
    IN  IF ~stub.ok
        THEN [appended |-> None, requested |-> FALSE,
              out |-> <<Printed(<<"Error scraping book", stub.exc>>)>>]
        ELSE LET det == get_book_details(stub.book_url, resp)
             IN  IF det.ret.kind = "raise"
                 THEN [appended |-> None, requested |-> TRUE,
                       out |-> det.out \o <<Printed(<<"Error scraping book", det.ret.exc>>)>>]
                 ELSE [appended |-> Some(make_book(stub, det.ret)), requested |-> TRUE,
                       out |-> det.out \o <<Printed(<<"Scraped", stub.title>>),
                                            Slept(ITEM_SLEEP_TENTHS)>>]

----------------------------------------------------------------------------
(* data_cleaner.py: the raw texts of a record, and what the cleaning reads
   from them. A text is a sequence of tokens: a word (a maximal run of
   letters), one whitespace character, a maximal run of digits with its value
   and its number of digits, or one other character. *)

Tok(k, s, n, len) == [k |-> k, s |-> s, n |-> n, len |-> len]

Word(s) == Tok("word", s, 0, 0)

Space == Tok("space", " ", 0, 0)

Digits(n, len) == Tok("digits", "", n, len)

Char(c) == Tok("char", c, 0, 0)

\* str.lower() on the words the texts are made of
lower(w) ==
    CASE w \in {"In", "IN", "in", "iN"} -> "in"
      [] w \in {"Stock", "STOCK", "stock"} -> "stock"
      [] w \in {"Within", "within"} -> "within"
      [] w \in {"Instock", "instock"} -> "instock"
      [] w \in {"Out", "out"} -> "out"
      [] w \in {"Available", "available"} -> "available"
      [] w \in {"NaN", "nan"} -> "nan"
      [] w \in {"Inf", "inf"} -> "inf"
      [] OTHER -> w

\* 'in stock' in text.lower(): a word ending in "in", one blank, a word
\* starting with "stock"
contains_in_stock(text) ==
    \E i \in 1..(Len(text) - 2) :
        /\ text[i].k = "word" /\ lower(text[i].s) \in {"in", "within"}
        /\ text[i + 1] = Space
        /\ text[i + 2].k = "word" /\ lower(text[i + 2].s) \in {"stock", "stocks"}

RECURSIVE skip_spaces(_, _)
\* \s* from position j: the first position that holds no whitespace
skip_spaces(text, j) ==
    IF j <= Len(text) /\ text[j].k = "space" THEN skip_spaces(text, j + 1) ELSE j

\* the pattern \((\d+)\s*available\) matches at position i
count_matches_at(text, i) ==
    /\ i + 1 <= Len(text)
    /\ text[i] = Char("(")
    /\ text[i + 1].k = "digits"
    /\ LET j == skip_spaces(text, i + 2)
       IN  /\ j + 1 <= Len(text)
           /\ text[j] = Word("available")
           /\ text[j + 1] = Char(")")

\* extract_stock_quantity(availability_str): re.search takes the leftmost match
extract_stock_quantity(availability_str) ==
    IF availability_str = None THEN 0
    ELSE LET text == availability_str[1]
             hits == { i \in 1..Len(text) : count_matches_at(text, i) }
         IN  IF hits # {}
             THEN text[(CHOOSE i \in hits : \A h \in hits : i <= h) + 1].n
             ELSE IF contains_in_stock(text) THEN 1
             ELSE 0

RECURSIVE lstrip(_)
lstrip(text) ==
    IF text # << >> /\ Head(text).k = "space" THEN lstrip(Tail(text)) ELSE text

RECURSIVE rstrip(_)
rstrip(text) ==
    IF text # << >> /\ text[Len(text)].k = "space"
    THEN rstrip(SubSeq(text, 1, Len(text) - 1)) ELSE text

\* str.strip() on a token text
strip_spaces(text) == rstrip(lstrip(text))

\* re.sub(r'[£$€]', '', text): the symbols are removed wherever they stand
remove_currency(text) ==
    SelectSeq(text, LAMBDA t : ~(t.k = "char" /\ t.s \in {"£", "$", "€"}))

\* A float as clean_price returns it: np.nan, an infinity, or a finite value
\* held in hundredths (the prices carry at most two decimals)
NaN == [kind |-> "nan", cents |-> 0]

Inf == [kind |-> "inf", cents |-> 0]

Float(cents) == [kind |-> "float", cents |-> cents]

ValueError == [kind |-> "raise", cents |-> 0]

\* the hundredths a run of one or two digits after the point stands for
hundredths(d) == IF d.len = 1 THEN d.n * 10 ELSE d.n

\* float(s): blanks around, an optional sign, then digits, digits with a point,
\* a point with digits, or the words nan and inf in any case; anything else
\* is a ValueError
float(text) ==
    LET t == strip_spaces(text)
        signed == t # << >> /\ t[1] \in {Char("+"), Char("-")}
        sign == IF signed /\ t[1] = Char("-") THEN -1 ELSE 1
        body == IF signed THEN Tail(t) ELSE t
        n == Len(body)
    IN  IF n = 1 /\ body[1].k = "digits" THEN Float(sign * body[1].n * 100)
        ELSE IF n = 1 /\ body[1].k = "word" /\ lower(body[1].s) = "nan" THEN NaN
        ELSE IF n = 1 /\ body[1].k = "word" /\ lower(body[1].s) = "inf" THEN Inf
        ELSE IF n = 2 /\ body[1].k = "digits" /\ body[2] = Char(".")
        THEN Float(sign * body[1].n * 100)
        ELSE IF n = 2 /\ body[1] = Char(".") /\ body[2].k = "digits"
        THEN Float(sign * hundredths(body[2]))
        ELSE IF n = 3 /\ body[1].k = "digits" /\ body[2] = Char(".") /\ body[3].k = "digits"
        THEN Float(sign * (body[1].n * 100 + hundredths(body[3])))
        ELSE ValueError

\* clean_price without its try/except
clean_price_uncaught(price_str) ==
    IF price_str = None THEN NaN
    ELSE float(remove_currency(strip_spaces(price_str[1])))

\* clean_price(price_str)
clean_price(price_str) ==
    IF price_str = None THEN NaN
    ELSE LET cleaned == remove_currency(strip_spaces(price_str[1]))
         IN  IF float(cleaned) = ValueError THEN NaN ELSE float(cleaned)

\* num / den cut to the integer below
floor_div(num, den) == { num \div den }

\* round(num / den): the nearest integer; when num / den lies halfway between
\* two integers the result hangs on the binary value of the quotient, and
\* either neighbour can come out
round_div(num, den) ==
    LET q == num \div den
        r == num % den
    IN  IF 2 * r < den THEN {q}
        ELSE IF 2 * r > den THEN {q + 1}
        ELSE {q, q + 1}

\* calculate_value_score(row): the values it can return, in hundredths.
\* row.price_clean is a float as clean_price gives it, row.rating is None
\* (missing) or Some(stars); rating / (price / 10) in hundredths is
\* 100000 * rating / cents, and a rating divided by an infinite price is 0.0.
calculate_value_score(row) ==
    IF row.price_clean = NaN THEN {0}
    ELSE IF row.price_clean # Inf /\ row.price_clean.cents <= 0 THEN {0}
    ELSE IF row.rating = None THEN {0}
    ELSE IF row.rating[1] = 0 THEN {0}
    ELSE IF row.price_clean = Inf THEN {0}
    ELSE round_div(100000 * row.rating[1], row.price_clean.cents)

----------------------------------------------------------------------------
(* The site the crawl meets *)

BookSlug ==
    << <<"book-1-1", "book-1-2", "book-1-3", "book-1-4">>,
       <<"book-2-1", "book-2-2", "book-2-3", "book-2-4">>,
       <<"book-3-1", "book-3-2", "book-3-3", "book-3-4">> >>

Ref(kind, segs) == [kind |-> kind, segs |-> segs]

\* Which elements an item block has: link is "a" (a complete title link),
\* "no_h3", "no_a", "no_title" or "no_href"; rating is None or Some(class list);
\* img is "src" (the src the catalogue pages write, "../media/..."), "src_plain"
\* (the src the site's index.html writes, "media/..."), "no_src" or "none".
Shape(link, price, rating, instock, img) ==
    [link |-> link, price |-> price, rating |-> rating, instock |-> instock, img |-> img]

\* The n-th item block of listing page p with the elements shape names, marked
\* up the way the site does (relative links, padded availability text)
ArticleOf(shape, p, n) ==
    Article(IF shape.link \in {"no_h3", "no_a"} THEN shape.link ELSE "a",
            IF shape.link = "a" \/ shape.link = "no_href" THEN Some(<<"Book", p, n>>) ELSE None,
            IF shape.link = "a" \/ shape.link = "no_title"
              THEN Some(Ref("relative", <<BookSlug[p][n], "index.html">>)) ELSE None,
            IF shape.price THEN Some(Text(FALSE, "£51.77")) ELSE None,
            shape.rating,
            IF shape.instock THEN Some(Text(TRUE, "In stock")) ELSE None,
            CASE shape.img = "src" ->
                   Some([src |-> Some(Ref("relative", <<"..", "media", BookSlug[p][n]>>))])
              [] shape.img = "src_plain" ->
                   Some([src |-> Some(Ref("relative", <<"media", BookSlug[p][n]>>))])
              [] shape.img = "no_src" -> Some([src |-> None])
              [] OTHER -> None)

FullShape == Shape("a", TRUE, Some(<<"star-rating", "Three">>), TRUE, "src")

\* The item blocks a crawl meets: complete, without a title link, without a
\* rating element, with a rating class the table does not know
CrawlShapes ==
    { FullShape,
      [FullShape EXCEPT !.link = "no_a"],
      [FullShape EXCEPT !.rating = None],
      [FullShape EXCEPT !.rating = Some(<<"star-rating", "Zero">>)] }

FullDetail ==
    DetailDoc(Some(<<Text(FALSE, "Home"), Text(FALSE, "Books"), Text(TRUE, "Poetry")>>),
              Some(<<[th |-> Some(Text(FALSE, "UPC")), td |-> Some(Text(FALSE, "a897fe39b1053632"))],
                     [th |-> Some(Text(FALSE, "Product Type")), td |-> Some(Text(FALSE, "Books"))]>>),
              Some(Some(Text(TRUE, "It's hard to imagine a world without A Light in the Attic."))))

EmptyDetail == DetailDoc(None, None, None)

\* What a detail request meets during a crawl
CrawlDetailResponses ==
    { OkResponse(FullDetail), OkResponse(EmptyDetail),
      TransportFailure("Timeout"), RejectedResponse }

SeqsUpTo(S, n) == UNION { [1..k -> S] : k \in 0..n }

\* What the request for listing page p meets: a page of at most room item
\* blocks, a 404 (the catalogue has fewer pages), or a body the parser rejects
CrawlPageResponses(p, room) ==
    { OkResponse([n \in DOMAIN shapes |-> ArticleOf(shapes[n], p, n)]) :
        shapes \in SeqsUpTo(CrawlShapes, room) }
    \cup { StatusResponse(404), RejectedResponse }

----------------------------------------------------------------------------
(* scrape_books *)

Init ==
    /\ max_pages \in 0..MaxPages
    /\ pc = "fetch"
    /\ page_num = 1
    /\ page_url = None
    /\ book_articles = << >>
    /\ pos = 1
    /\ books = << >>
    /\ trace = << >>
    /\ seen = << >>
    /\ net = << >>
    /\ unit = [fn |-> "none"]

\* One turn of the page loop up to the inner loop: the page URL, get_soup, and
\* either the continue, the escaping exception, or find_all
FetchPage ==
    /\ pc = "fetch"
    /\ page_num <= max_pages
    /\ \E resp \in CrawlPageResponses(page_num, MaxBlocks - Len(seen)) :
         LET url == PageUrl(page_num)
             got == get_soup(url, resp)
             out == <<Printed(<<"Scraping page", page_num, url>>)>> \o got.out
         IN  /\ page_url' = Some(url)
             /\ net' = Append(net, [kind |-> "listing", page |-> page_num, pos |-> 0,
                                    url |-> url, resp |-> resp])
             /\ IF got.ret.kind = "raise"
                THEN /\ pc' = "raised"
                     /\ trace' = trace \o out
                     /\ UNCHANGED <<page_num, book_articles, pos>>
                ELSE IF got.ret.kind = "None"
                THEN /\ pc' = "fetch"
                     /\ trace' = trace \o out \o <<Printed(<<"Failed to fetch page", page_num>>)>>
                     /\ page_num' = page_num + 1
                     /\ UNCHANGED <<book_articles, pos>>
                ELSE /\ pc' = "items"
                     /\ trace' = trace \o out
                     /\ book_articles' = got.ret.doc
                     /\ pos' = 1
                     /\ UNCHANGED page_num
    /\ UNCHANGED <<max_pages, books, seen, unit>>

\* One turn of the inner loop: the try body for the next item block
ScrapeArticle ==
    /\ pc = "items"
    /\ pos <= Len(book_articles)
    /\ \E resp \in CrawlDetailResponses :
         LET done == scrape_article(book_articles[pos], page_url[1], resp)
             book_url == urljoin(page_url[1], book_articles[pos].href[1])
         IN  /\ books' = IF done.appended = None THEN books
                         ELSE append_book(books, done.appended[1])
             /\ trace' = trace \o done.out
             /\ seen' = Append(seen, [page |-> page_num, pos |-> pos,
                                      article |-> book_articles[pos],
                                      response |-> IF done.requested
                                                   THEN Some(resp) ELSE None])
             /\ net' = IF done.requested
                       THEN Append(net, [kind |-> "detail", page |-> page_num, pos |-> pos,
                                         url |-> book_url, resp |-> resp])
                       ELSE net
    /\ pos' = pos + 1
    /\ UNCHANGED <<max_pages, pc, page_num, page_url, book_articles, unit>>

\* The inner loop is over: the sleep between pages, and the next page index
EndPage ==
    /\ pc = "items"
    /\ pos > Len(book_articles)
    /\ trace' = Append(trace, Slept(PAGE_SLEEP_TENTHS))
    /\ page_num' = page_num + 1
    /\ pc' = "fetch"
    /\ UNCHANGED <<max_pages, page_url, book_articles, pos, books, seen, net, unit>>

\* The page loop is over: return books
Return ==
    /\ pc = "fetch"
    /\ page_num > max_pages
    /\ pc' = "returned"
    /\ UNCHANGED <<max_pages, page_num, page_url, book_articles, pos, books, trace, seen, net, unit>>

Next == FetchPage \/ ScrapeArticle \/ EndPage \/ Return

Spec == Init /\ [][Next]_vars

----------------------------------------------------------------------------
(* The functions called on their own, one call per behaviour, on every input
   of a bounded set *)

RatingClassInputs ==
    {None} \cup { Some(t) : t \in RatingTokens \cup {"Zero", "Six", "three", "star-rating", ""} }

RatingMarkups ==
    { None, Some(<<"star-rating">>), Some(<<"Three", "star-rating">>),
      Some(<<"Zero", "star-rating", "Three">>) }
    \cup { Some(<<"star-rating", t>>) : t \in RatingTokens \cup {"Zero"} }

AllShapes ==
    { Shape(link, price, rating, instock, img) :
        link \in {"a", "no_h3", "no_a", "no_title", "no_href"},
        price \in BOOLEAN, rating \in RatingMarkups, instock \in BOOLEAN,
        img \in {"src", "src_plain", "no_src", "none"} }

AllDetailDocs ==
    { DetailDoc(breadcrumb, table, description) :
        breadcrumb \in { None,
                         Some(<<Text(FALSE, "Home"), Text(FALSE, "Books")>>),
                         FullDetail.breadcrumb },
        table \in { None,
                    Some(<<[th |-> Some(Text(FALSE, "Product Type")),
                            td |-> Some(Text(FALSE, "Books"))]>>),
                    Some(<<[th |-> Some(Text(TRUE, "UPC")), td |-> None],
                           [th |-> None, td |-> Some(Text(FALSE, "Books"))]>>),
                    FullDetail.table },
        description \in { None, Some(None), FullDetail.description } }

AllDetailResponses ==
    { OkResponse(doc) : doc \in AllDetailDocs }
    \cup { TransportFailure("ConnectionError"), TransportFailure("Timeout"),
           StatusResponse(404), StatusResponse(500), RejectedResponse }

\* The URLs a direct call of get_soup is given: a listing page, an item page
GetSoupUrls ==
    { PageUrl(1), PageUrl(2),
      urljoin(PageUrl(1), Ref("relative", <<BookSlug[1][1], "index.html">>)) }

CallGetSoup ==
    /\ unit.fn = "none"
    /\ \E url \in GetSoupUrls, resp \in AllDetailResponses :
         unit' = [fn |-> "get_soup", arg |-> url, resp |-> resp,
                  ret |-> get_soup(url, resp).ret, out |-> get_soup(url, resp).out]
    /\ UNCHANGED crawlVars

\* How an availability text may begin
StockPrefix(name) ==
    CASE name = "In stock" -> <<Word("In"), Space, Word("stock")>>
      [] name = "in stock" -> <<Word("in"), Space, Word("stock")>>
      [] name = "IN STOCK" -> <<Word("IN"), Space, Word("STOCK")>>
      [] name = "Within stock" -> <<Word("Within"), Space, Word("stock")>>
      [] name = "Out of stock" -> <<Word("Out"), Space, Word("of"), Space, Word("stock")>>
      [] name = "In  stock" -> <<Word("In"), Space, Space, Word("stock")>>
      [] name = "Instock" -> <<Word("Instock")>>
      [] OTHER -> << >>

StockPrefixNames ==
    {"", "In stock", "in stock", "IN STOCK", "Within stock", "Out of stock",
     "In  stock", "Instock"}

\* How it may go on
StockCount(name) ==
    CASE name = "(22 available)" ->
           <<Char("("), Digits(22, 2), Space, Word("available"), Char(")")>>
      [] name = "(0 available)" ->
           <<Char("("), Digits(0, 1), Space, Word("available"), Char(")")>>
      [] name = "(22available)" ->
           <<Char("("), Digits(22, 2), Word("available"), Char(")")>>
      [] name = "(22 Available)" ->
           <<Char("("), Digits(22, 2), Space, Word("Available"), Char(")")>>
      [] name = "( 22 available)" ->
           <<Char("("), Space, Digits(22, 2), Space, Word("available"), Char(")")>>
      [] name = "(22 available" ->
           <<Char("("), Digits(22, 2), Space, Word("available")>>
      [] name = "(available)" -> <<Char("("), Word("available"), Char(")")>>
      [] name = "(22 left) (5 available)" ->
           <<Char("("), Digits(22, 2), Space, Word("left"), Char(")"), Space,
             Char("("), Digits(5, 1), Space, Word("available"), Char(")")>>
      [] OTHER -> << >>

StockCountNames ==
    {"", "(22 available)", "(0 available)", "(22available)", "(22 Available)",
     "( 22 available)", "(22 available", "(available)", "(22 left) (5 available)"}

AvailabilityText(prefix, count) ==
    StockPrefix(prefix)
      \o (IF prefix # "" /\ count # "" THEN <<Space>> ELSE << >>)
      \o StockCount(count)

\* df['availability'].apply(extract_stock_quantity) on one cell: a missing
\* value, or a text
CallExtractStockQuantity ==
    /\ unit.fn = "none"
    /\ \/ unit' = [fn |-> "extract_stock_quantity", arg |-> None, prefix |-> "",
                   count |-> "", ret |-> extract_stock_quantity(None)]
       \/ \E prefix \in StockPrefixNames, count \in StockCountNames :
            unit' = [fn |-> "extract_stock_quantity",
                     arg |-> Some(AvailabilityText(prefix, count)),
                     prefix |-> prefix, count |-> count,
                     ret |-> extract_stock_quantity(Some(AvailabilityText(prefix, count)))]
    /\ UNCHANGED crawlVars

\* The price texts clean_price is tried on
PriceText(name) ==
    CASE name = "£51.77" -> <<Char("£"), Digits(51, 2), Char("."), Digits(77, 2)>>
      [] name = "$51.77" -> <<Char("$"), Digits(51, 2), Char("."), Digits(77, 2)>>
      [] name = "€51.77" -> <<Char("€"), Digits(51, 2), Char("."), Digits(77, 2)>>
      [] name = " £51.77 " ->
           <<Space, Char("£"), Digits(51, 2), Char("."), Digits(77, 2), Space>>
      [] name = "£ 51.77" ->
           <<Char("£"), Space, Digits(51, 2), Char("."), Digits(77, 2)>>
      [] name = "51.77£" -> <<Digits(51, 2), Char("."), Digits(77, 2), Char("£")>>
      [] name = "51.77" -> <<Digits(51, 2), Char("."), Digits(77, 2)>>
      [] name = "£51" -> <<Char("£"), Digits(51, 2)>>
      [] name = "£51." -> <<Char("£"), Digits(51, 2), Char(".")>>
      [] name = "£0.5" -> <<Char("£"), Digits(0, 1), Char("."), Digits(5, 1)>>
      [] name = "£.05" -> <<Char("£"), Char("."), Digits(5, 2)>>
      [] name = "£-5.00" -> <<Char("£"), Char("-"), Digits(5, 1), Char("."), Digits(0, 2)>>
      [] name = "£" -> <<Char("£")>>
      [] name = "£abc" -> <<Char("£"), Word("abc")>>
      [] name = "£51,77" -> <<Char("£"), Digits(51, 2), Char(","), Digits(77, 2)>>
      [] name = "£1,234.56" ->
           <<Char("£"), Digits(1, 1), Char(","), Digits(234, 3), Char("."), Digits(56, 2)>>
      [] name = "£51.77.1" ->
           <<Char("£"), Digits(51, 2), Char("."), Digits(77, 2), Char("."), Digits(1, 1)>>
      [] name = "£51 77" -> <<Char("£"), Digits(51, 2), Space, Digits(77, 2)>>
      [] name = "Â£51.77" ->
           <<Word("Â"), Char("£"), Digits(51, 2), Char("."), Digits(77, 2)>>
      [] name = "£NaN" -> <<Char("£"), Word("NaN")>>
      [] name = "£inf" -> <<Char("£"), Word("inf")>>
      [] OTHER -> << >>

PriceTextNames ==
    {"", "£51.77", "$51.77", "€51.77", " £51.77 ", "£ 51.77", "51.77£", "51.77",
     "£51", "£51.", "£0.5", "£.05", "£-5.00", "£", "£abc", "£51,77", "£1,234.56",
     "£51.77.1", "£51 77", "Â£51.77", "£NaN", "£inf"}

\* df['price'].apply(clean_price) on one cell: a missing value, or a text
CallCleanPrice ==
    /\ unit.fn = "none"
    /\ \/ unit' = [fn |-> "clean_price", arg |-> None, name |-> "",
                   ret |-> clean_price(None)]
       \/ \E name \in PriceTextNames :
            unit' = [fn |-> "clean_price", arg |-> Some(PriceText(name)), name |-> name,
                     ret |-> clean_price(Some(PriceText(name)))]
    /\ UNCHANGED crawlVars

\* The cleaned prices a row may hold: missing, infinite, negative, zero, a penny,
\* 10.00, the site's 51.77, and prices around 400 and 2000
RowPrices ==
    {NaN, Inf} \cup { Float(c) : c \in {-500, 0, 1, 1000, 5177, 40000, 199999,
                                         200000, 200001, 250000, 1000001} }

RowRatings == {None} \cup { Some(r) : r \in 0..5 }

\* df_clean.apply(calculate_value_score, axis=1) on one row
CallCalculateValueScore ==
    /\ unit.fn = "none"
    /\ \E price \in RowPrices, rating \in RowRatings :
         LET row == [price_clean |-> price, rating |-> rating]
         IN  \E score \in calculate_value_score(row) :
                unit' = [fn |-> "calculate_value_score", arg |-> row, ret |-> score]
    /\ UNCHANGED crawlVars

CallConvertRating ==
    /\ unit.fn = "none"
    /\ \E rating_class \in RatingClassInputs :
         unit' = [fn |-> "convert_rating_to_number", arg |-> rating_class,
                  ret |-> convert_rating_to_number(rating_class)]
    /\ UNCHANGED crawlVars

CallGetBookDetails ==
    /\ unit.fn = "none"
    /\ \E resp \in AllDetailResponses :
         LET book_url == urljoin(PageUrl(1), Ref("relative", <<BookSlug[1][1], "index.html">>))
         IN  unit' = [fn |-> "get_book_details", arg |-> book_url, resp |-> resp,
                      ret |-> get_book_details(book_url, resp).ret]
    /\ UNCHANGED crawlVars

\* The try body of scrape_books' inner loop on one item block of page p
CallScrapeArticle ==
    /\ unit.fn = "none"
    /\ \E shape \in AllShapes, p \in 1..MaxPages, resp \in CrawlDetailResponses :
         unit' = [fn |-> "scrape_article", shape |-> shape, page |-> p, resp |-> resp,
                  ret |-> scrape_article(ArticleOf(shape, p, 1), PageUrl(p), resp)]
    /\ UNCHANGED crawlVars

NextUnit ==
    \/ CallGetSoup
    \/ CallConvertRating
    \/ CallGetBookDetails
    \/ CallScrapeArticle
    \/ CallExtractStockQuantity
    \/ CallCleanPrice
    \/ CallCalculateValueScore

SpecUnit == Init /\ [][NextUnit]_vars

----------------------------------------------------------------------------
(* Vocabulary of the properties: what the network did, read off the history *)

\* A fetch failure: a transport error, a timeout or a non-success status
FetchFailure(resp) == resp.transport # "ok" \/ resp.status >= 400

\* A response that arrived with a success status and cannot be parsed
ParseRejected(resp) == ~FetchFailure(resp) /\ ~resp.parses

HasTitleLink(article) == article.link = "a" /\ article.title # None /\ article.href # None

\* The indices in books of the records made from the item block of entry e
RecordsOf(e) == { i \in 1..Len(books) : books[i].title = e.article.title[1] }

\* What the listing fields of the n-th block of page p hold when the block has
\* the element (the site's markup, resolved and stripped by hand)
ExpectedBookUrl(p, n) == Url(<<"catalogue", BookSlug[p][n], "index.html">>)

ExpectedImageUrl(p, n) == Url(<<"media", BookSlug[p][n]>>)

ExpectedPrice == Text(FALSE, "£51.77")

ExpectedAvailability == Text(FALSE, "In stock")

ExpectedRating(article) ==
    IF article.star_rating = Some(<<"star-rating", "Three">>) THEN 3 ELSE 0

\* The record at index i carries the listing fields of the block of entry e
\* (every block a crawl meets has a price, an availability and an image)
ListingFieldsKept(i, e) ==
    /\ books[i].title = <<"Book", e.page, e.pos>>
    /\ books[i].book_url = ExpectedBookUrl(e.page, e.pos)
    /\ books[i].price = Some(ExpectedPrice)
    /\ books[i].availability = Some(ExpectedAvailability)
    /\ books[i].image_url = Some(ExpectedImageUrl(e.page, e.pos))
    /\ books[i].rating = ExpectedRating(e.article)

DetailFieldsAbsent(i) ==
    books[i].category = None /\ books[i].upc = None /\ books[i].description = None

----------------------------------------------------------------------------
(* C1: for every item whose listing extraction succeeded, if the detail fetch
   or the detail parse fails, books holds exactly one record for the item, with
   its listing fields and with category, upc and description absent.
   The code drops the item when the detail page cannot be parsed. *)
C1_DetailFailureKeepsRecord ==
    \A k \in 1..Len(seen) :
        LET e == seen[k]
        IN  (/\ HasTitleLink(e.article)
             /\ e.response # None
             /\ (FetchFailure(e.response[1]) \/ ParseRejected(e.response[1])))
            => /\ Cardinality(RecordsOf(e)) = 1
               /\ \A i \in RecordsOf(e) : ListingFieldsKept(i, e) /\ DetailFieldsAbsent(i)

(* C2: a step in which the fetch of listing page N fails adds no record, keeps
   books as it is, and leaves the loop at the fetch of page N+1; whenever the
   loop is at the fetch of a page within max_pages, that fetch is what happens
   next, not the return. *)
C2_PageFailureSkipsPage ==
    /\ [][ (/\ pc = "fetch"
            /\ Len(net') = Len(net) + 1
            /\ FetchFailure(net'[Len(net')].resp))
           => (/\ net'[Len(net')].url = PageUrl(page_num)
               /\ books' = books
               /\ seen' = seen
               /\ pc' = "fetch"
               /\ page_num' = page_num + 1) ]_vars
    /\ []((pc = "fetch" /\ page_num <= max_pages)
            => ((ENABLED FetchPage) /\ ~(ENABLED Return)))

\* Page 1 failed, page 2 was fetched and gave a record
C2_Witness ==
    /\ Len(net) >= 2
    /\ net[1].kind = "listing" /\ net[1].page = 1 /\ FetchFailure(net[1].resp)
    /\ net[2].kind = "listing" /\ net[2].page = 2
    /\ Len(books) >= 1

(* C3: a step of the inner loop on an item block whose extraction raises (no
   complete title link) appends nothing, makes no request and moves to the
   next block of the same page; and when a page is done, every block of every
   page fetched so far has been processed. *)
C3_ItemErrorSkipsOnlyThatItem ==
    /\ [][ (/\ pc = "items"
            /\ pos <= Len(book_articles)
            /\ ~HasTitleLink(book_articles[pos]))
           => (/\ books' = books
               /\ net' = net
               /\ Len(seen') = Len(seen) + 1
               /\ pc' = "items"
               /\ pos' = pos + 1
               /\ book_articles' = book_articles
               /\ page_num' = page_num) ]_vars
    /\ [](pc \in {"fetch", "returned"} =>
            \A k \in 1..Len(net) :
                (net[k].kind = "listing" /\ ~FetchFailure(net[k].resp))
                => \A n \in 1..Len(net[k].resp.doc) :
                       \E j \in 1..Len(seen) : seen[j].page = net[k].page /\ seen[j].pos = n)

\* A block without a title link was skipped and the next block of the page gave a record
C3_Witness ==
    \E k \in 1..Len(seen) : \E j \in 1..Len(seen) :
        /\ ~HasTitleLink(seen[k].article)
        /\ seen[j].page = seen[k].page /\ seen[j].pos = seen[k].pos + 1
        /\ HasTitleLink(seen[j].article) /\ RecordsOf(seen[j]) # {}
        /\ Len(books) = 1

(* C4: books is in discovery order in every state: of two records, the one
   from the lower page comes first, and of two from the same page the one from
   the earlier block comes first. *)
C4_DiscoveryOrder ==
    \A i \in 1..Len(books) : \A j \in 1..Len(books) :
        i < j => \/ books[i].title[2] < books[j].title[2]
                 \/ /\ books[i].title[2] = books[j].title[2]
                    /\ books[i].title[3] < books[j].title[3]

\* Page 1 failed and page 2 gave two records
C4_Witness ==
    /\ pc = "returned"
    /\ Len(books) = 2
    /\ books[1].title = <<"Book", 2, 1>> /\ books[2].title = <<"Book", 2, 2>>
    /\ FetchFailure(net[1].resp)

IsListing(r) == r.kind = "listing"

\* The page indices of the listing requests, in the order they were made
ListingPagesRequested ==
    LET reqs == SelectSeq(net, IsListing)
    IN  [k \in 1..Len(reqs) |-> reqs[k].page]

(* C5: scrape_books ends by returning, never by an exception, and when it has
   returned it has requested the listing pages 1..max_pages, each once, in
   ascending order.
   The code ends with an exception when a listing page cannot be parsed. *)
C5_CrawlAlwaysReturns ==
    /\ pc # "raised"
    /\ (pc = "returned" => ListingPagesRequested = [k \in 1..max_pages |-> k])

(* C6: between every two successive requests of a crawl at least one sleep is
   executed.
   The code sleeps only after a record was appended and after a page's items:
   not between a listing fetch and the first detail fetch, nor after a failed
   page fetch. *)
C6_SleepBetweenRequests ==
    \A i \in 1..Len(trace) : \A j \in 1..Len(trace) :
        (/\ i < j
         /\ trace[i].ev = "request"
         /\ trace[j].ev = "request"
         /\ \A m \in (i+1)..(j-1) : trace[m].ev # "request")
        => \E m \in (i+1)..(j-1) : trace[m].ev = "sleep"

\* A detail page that carries none of the three substructures
NoSubstructure(doc) == doc.breadcrumb = None /\ doc.table = None /\ doc.description = None

(* C7: the number of records returned is the number of item blocks, on the
   pages fetched, whose listing extraction did not raise, and the records with
   category, upc and description all absent are exactly those of the items
   whose detail fetch failed or whose detail page has none of the three
   substructures.
   The code returns fewer records when a detail page cannot be parsed. *)
C7_RecordCount ==
    pc = "returned" =>
        /\ Len(books) = Cardinality({ k \in 1..Len(seen) : HasTitleLink(seen[k].article) })
        /\ { i \in 1..Len(books) : DetailFieldsAbsent(i) }
           = UNION { RecordsOf(seen[k]) :
                       k \in { n \in 1..Len(seen) :
                                 /\ HasTitleLink(seen[n].article)
                                 /\ seen[n].response # None
                                 /\ \/ FetchFailure(seen[n].response[1])
                                    \/ /\ ~ParseRejected(seen[n].response[1])
                                       /\ NoSubstructure(seen[n].response[1].doc) } }

(* C8: convert_rating_to_number gives 1, 2, 3, 4, 5 for One, Two, Three, Four,
   Five and 0 for every other argument, None included. *)
C8_ConvertRating ==
    unit.fn = "convert_rating_to_number" =>
        unit.ret = CASE unit.arg = Some("One") -> 1
                     [] unit.arg = Some("Two") -> 2
                     [] unit.arg = Some("Three") -> 3
                     [] unit.arg = Some("Four") -> 4
                     [] unit.arg = Some("Five") -> 5
                     [] OTHER -> 0

\* The call on a token the table does not hold
C8_Witness ==
    unit.fn = "convert_rating_to_number" /\ unit.arg = Some("three") /\ unit.ret = 0

\* The item block has no rating element, or one with no class the table knows
Unrated(article) ==
    \/ article.star_rating = None
    \/ \A n \in 1..Len(article.star_rating[1]) : article.star_rating[1][n] \notin RatingTokens

(* C9: in every state of a crawl every record of books has a rating in 0..5;
   an item block with a title link and no recognised rating is not skipped by
   the extraction (it reaches the detail request), every record of it has
   rating 0, and it has a record unless its detail page could not be parsed. *)
C9_RatingInRange ==
    /\ \A i \in 1..Len(books) : books[i].rating \in 0..5
    /\ \A k \in 1..Len(seen) :
         LET e == seen[k]
         IN  (HasTitleLink(e.article) /\ Unrated(e.article))
             => /\ e.response # None
                /\ \A i \in RecordsOf(e) : books[i].rating = 0
                /\ (~ParseRejected(e.response[1]) => RecordsOf(e) # {})

\* A block with no rating element and a block with an unknown rating class, both recorded
C9_Witness ==
    /\ Len(seen) = 2 /\ Len(books) = 2
    /\ seen[1].article.star_rating = None
    /\ seen[2].article.star_rating = Some(<<"star-rating", "Zero">>)
    /\ books[1].rating = 0 /\ books[2].rating = 0

\* The same item block with every optional element present
Complete(shape) ==
    [shape EXCEPT !.price = TRUE, !.instock = TRUE,
                  !.img = IF @ = "none" THEN "src" ELSE @,
                  !.rating = IF @ = None THEN Some(<<"star-rating", "Three">>) ELSE @]

(* C10: the try body on an item block with a title link that lacks its price,
   rating, availability or image element appends a record exactly when it
   does for the same block with the elements present (always, unless the
   detail page cannot be parsed); the record has None for the missing price,
   availability or image and 0 for the missing rating, and every other field
   equal to that of the complete block's record. *)
C10_MissingElementStillRecorded ==
    (unit.fn = "scrape_article" /\ unit.shape.link = "a") =>
        LET whole == scrape_article(ArticleOf(Complete(unit.shape), unit.page, 1),
                                    PageUrl(unit.page), unit.resp).appended
            got == unit.ret.appended
        IN  /\ (got = None) <=> (whole = None)
            /\ (~ParseRejected(unit.resp) => got # None)
            /\ got # None =>
                 /\ got[1].title = <<"Book", unit.page, 1>>
                 /\ got[1].book_url = ExpectedBookUrl(unit.page, 1)
                 /\ got[1].price = IF unit.shape.price THEN whole[1].price ELSE None
                 /\ got[1].rating = IF unit.shape.rating # None THEN whole[1].rating ELSE 0
                 /\ got[1].availability
                      = IF unit.shape.instock THEN whole[1].availability ELSE None
                 /\ got[1].image_url
                      = IF unit.shape.img # "none" THEN whole[1].image_url ELSE None
                 /\ got[1].category = whole[1].category
                 /\ got[1].upc = whole[1].upc
                 /\ got[1].description = whole[1].description

\* A block with only its title link, recorded with every optional field absent
C10_Witness ==
    /\ unit.fn = "scrape_article"
    /\ unit.shape = Shape("a", FALSE, None, FALSE, "none")
    /\ unit.ret.appended # None
    /\ unit.ret.appended[1].price = None
    /\ unit.ret.appended[1].rating = 0
    /\ unit.ret.appended[1].availability = None
    /\ unit.ret.appended[1].image_url = None
    /\ unit.ret.appended[1].category # None

\* C11: get_soup never raises to its caller: whatever the request meets (a
\* transport error, a timeout, a non-success status, a body that cannot be
\* turned into a document) the call returns a parsed document or None.
C11_GetSoupNeverRaises ==
    unit.fn = "get_soup" => unit.ret.kind \in {"soup", "None"}

\* The outbound requests of the crawl so far, in order
Requests == SelectSeq(trace, LAMBDA e : e.ev = "request")

\* The listing pages whose turn of the page loop has begun
PagesBegun == IF pc \in {"fetch", "returned"} THEN page_num - 1 ELSE page_num

\* The item blocks whose listing extraction reached the detail step
ReachedDetail == { k \in 1..Len(seen) : HasTitleLink(seen[k].article) }

(* C12: there is no retry. Each call of get_soup makes exactly one outbound
   request, no URL (a listing page's or an item's detail URL, failed or not)
   is requested twice during a crawl, and the number of outbound requests is
   the number of listing pages begun plus the number of items whose listing
   extraction reached the detail step: max_pages plus that number when the
   crawl returns. *)
C12_NoRetry ==
    /\ Len(Requests) = Len(net)
    /\ \A i \in 1..Len(net) : Requests[i].url = net[i].url
    /\ \A i, j \in 1..Len(Requests) : (i # j) => (Requests[i].url # Requests[j].url)
    /\ Len(Requests) = PagesBegun + Cardinality(ReachedDetail)
    /\ (pc = "returned") => (Len(Requests) = max_pages + Cardinality(ReachedDetail))

\* A returned crawl of two pages in which a listing fetch and a detail fetch
\* both failed
C12_Witness ==
    /\ pc = "returned"
    /\ max_pages = 2
    /\ \E i, j \in 1..Len(net) :
         /\ net[i].kind = "listing" /\ FetchFailure(net[i].resp)
         /\ net[j].kind = "detail" /\ FetchFailure(net[j].resp)
    /\ Len(Requests) = 3

\* The three substructures of a detail page, each as the site writes it
HasCategoryPart(doc) == doc.breadcrumb = FullDetail.breadcrumb

HasUpcPart(doc) == doc.table = FullDetail.table

HasDescriptionPart(doc) == doc.description = FullDetail.description

(* C13: on a detail page that was fetched and parsed, get_book_details
   extracts category, upc and description independently: each of the three is
   present exactly when its own substructure is (a breadcrumb with at least
   three links, a UPC table row, the description anchor with a following
   paragraph), with the stripped text that substructure carries, whatever the
   other two are. *)
C13_DetailFieldsIndependent ==
    (/\ unit.fn = "get_book_details"
     /\ ~FetchFailure(unit.resp)
     /\ ~ParseRejected(unit.resp))
    => /\ unit.ret.kind = "values"
       /\ unit.ret.category = IF HasCategoryPart(unit.resp.doc)
                               THEN Some(Text(FALSE, "Poetry")) ELSE None
       /\ unit.ret.upc = IF HasUpcPart(unit.resp.doc)
                          THEN Some(Text(FALSE, "a897fe39b1053632")) ELSE None
       /\ unit.ret.description
            = IF HasDescriptionPart(unit.resp.doc)
              THEN Some(Text(FALSE, "It's hard to imagine a world without A Light in the Attic."))
              ELSE None

\* A page with the UPC row and neither breadcrumb nor description
C13_Witness ==
    /\ unit.fn = "get_book_details"
    /\ unit.resp = OkResponse(DetailDoc(None, FullDetail.table, None))
    /\ unit.ret.kind = "values"
    /\ unit.ret.category = None
    /\ unit.ret.upc = Some(Text(FALSE, "a897fe39b1053632"))
    /\ unit.ret.description = None

\* The image link of the n-th block of page p, resolved by hand against the URL
\* of page p (https://books.toscrape.com/catalogue/page-p.html)
PageResolvedImageUrl(img, p, n) ==
    IF img = "src" THEN Url(<<"media", BookSlug[p][n]>>)
    ELSE Url(<<"catalogue", "media", BookSlug[p][n]>>)

(* C14: in every record, book_url and image_url are absolute URLs, the link
   found in the markup resolved against the URL of the listing page the item
   was discovered on, also when the markup supplies a relative path.
   The code resolves the image link against BASE_URL instead. *)
C14_UrlsResolvedAgainstPage ==
    (unit.fn = "scrape_article" /\ unit.ret.appended # None)
    => LET book == unit.ret.appended[1]
       IN  /\ book.book_url = ExpectedBookUrl(unit.page, 1)
           /\ (unit.shape.img \in {"src", "src_plain"})
                => (book.image_url
                      = Some(PageResolvedImageUrl(unit.shape.img, unit.page, 1)))

(* C15: extract_stock_quantity returns n for a text containing "(n available)"
   after "In stock", 1 for a text containing "in stock" (in any letter case)
   with no parenthesized count, and 0 for every text that does not contain
   "in stock" and for an absent value.
   The code returns the count of a text that does not contain "in stock". *)
C15_StockQuantity ==
    unit.fn = "extract_stock_quantity" =>
        /\ (unit.arg = None) => (unit.ret = 0)
        /\ (unit.arg # None /\ unit.prefix = "In stock" /\ unit.count = "(22 available)")
             => (unit.ret = 22)
        /\ (unit.arg # None /\ unit.prefix = "In stock" /\ unit.count = "(0 available)")
             => (unit.ret = 0)
        /\ (/\ unit.arg # None
            /\ unit.prefix \in {"In stock", "in stock", "IN STOCK", "Within stock"}
            /\ unit.count \in {"", "(available)"})
             => (unit.ret = 1)
        /\ (/\ unit.arg # None
            /\ unit.prefix \in {"", "Out of stock", "In  stock", "Instock"})
             => (unit.ret = 0)

(* C16: clean_price never raises. A currency-symbol-prefixed decimal text
   yields its numeric value; an absent price, and a text that is not numeric
   once the currency symbol is stripped, yield the absent numeric value. *)
C16_CleanPrice ==
    unit.fn = "clean_price" =>
        /\ unit.ret.kind # "raise"
        /\ (unit.arg = None) => (unit.ret = NaN)
        /\ (unit.arg # None /\ unit.name \in {"£51.77", "$51.77", "€51.77", " £51.77 "})
             => (unit.ret = Float(5177))
        /\ (unit.arg # None /\ unit.name = "£51") => (unit.ret = Float(5100))
        /\ (unit.arg # None /\ unit.name = "£0.5") => (unit.ret = Float(50))
        /\ (/\ unit.arg # None
            /\ unit.name \in {"", "£", "£abc", "£51,77", "£1,234.56", "£51.77.1",
                               "£51 77", "Â£51.77"})
             => (unit.ret = NaN)

\* A price written with a decimal comma comes out absent
C16_Witness ==
    /\ unit.fn = "clean_price"
    /\ unit.arg = Some(PriceText("£51,77"))
    /\ unit.ret = NaN

\* What the step just taken added to the trace
NewEvents == SubSeq(trace', Len(trace) + 1, Len(trace'))

\* Why the item block of entry e was skipped
SkipCause(e) ==
    IF e.response # None THEN "ParserRejectedMarkup"
    ELSE IF e.article.link = "no_h3" THEN "AttributeError"
    ELSE IF e.article.link = "no_a" THEN "TypeError"
    ELSE IF e.article.title = None THEN "KeyError: 'title'"
    ELSE "KeyError: 'href'"

(* C17: every skip or degradation is logged within the step that causes it,
   before the crawl moves on: a failed fetch (of a listing page or of a detail
   page) prints a line naming the URL that failed, a skipped page prints as
   its last word a line naming the page, a skipped item prints as its last
   word a line with the cause. *)
C17_SkipsAreLogged ==
    [][ /\ (Len(net') = Len(net) + 1 /\ FetchFailure(net'[Len(net')].resp))
           => \E i \in 1..Len(NewEvents) :
                 /\ NewEvents[i].ev = "print"
                 /\ NewEvents[i].msg[1] = "Error fetching"
                 /\ NewEvents[i].msg[2] = net'[Len(net')].url
                 /\ i > 1 /\ NewEvents[i - 1].ev = "request"
        /\ (/\ Len(net') = Len(net) + 1
            /\ net'[Len(net')].kind = "listing"
            /\ FetchFailure(net'[Len(net')].resp))
           => (NewEvents[Len(NewEvents)] = Printed(<<"Failed to fetch page", page_num>>))
        /\ (Len(seen') = Len(seen) + 1 /\ books' = books)
           => (NewEvents[Len(NewEvents)]
                 = Printed(<<"Error scraping book", SkipCause(seen'[Len(seen')])>>))
      ]_vars

\* A returned crawl that printed all three kinds of line
C17_Witness ==
    /\ pc = "returned"
    /\ \E i, j, k \in 1..Len(trace) :
         /\ trace[i].ev = "print" /\ trace[i].msg[1] = "Error fetching"
         /\ trace[j].ev = "print" /\ trace[j].msg[1] = "Failed to fetch page"
         /\ trace[k].ev = "print" /\ trace[k].msg[1] = "Error scraping book"
    /\ \E n \in 1..Len(net) : net[n].kind = "detail" /\ FetchFailure(net[n].resp)

(* C18: books is append-only. In every step of the crawl its length does not
   decrease and the records it held stay where and what they were; a step that
   processes an item block adds at most one record, any other step adds none,
   so each item block contributes at most one record. *)
C18_AppendOnly ==
    /\ [][ /\ Len(books') >= Len(books)
            /\ SubSeq(books', 1, Len(books)) = books
            /\ Len(books') <= Len(books) + (Len(seen') - Len(seen))
            /\ Len(seen') <= Len(seen) + 1 ]_vars
    /\ [](\A k \in 1..Len(seen) :
             HasTitleLink(seen[k].article) => (Cardinality(RecordsOf(seen[k])) <= 1))

\* Two records, the second appended behind the first, in a returned crawl
C18_Witness ==
    /\ pc = "returned"
    /\ Len(books) = 2
    /\ Len(seen) = 2
    /\ books[1].title = seen[1].article.title[1]
    /\ books[2].title = seen[2].article.title[1]

\* The rows for which calculate_value_score returns its 0 before dividing
ScoreGuarded(row) ==
    \/ row.price_clean = NaN
    \/ (row.price_clean.kind = "float" /\ row.price_clean.cents <= 0)
    \/ row.rating = None
    \/ row.rating = Some(0)

\* score (in hundredths) is rating / (price / 10) rounded to two decimals:
\* it is within half a hundredth of 100000 * rating / cents
RoundedQuotient(score, row) ==
    LET exact == 100000 * row.rating[1]
        cents == row.price_clean.cents
        diff == score * cents - exact
    IN  2 * (IF diff < 0 THEN -diff ELSE diff) <= cents

(* C19 as stated: calculate_value_score returns 0 whenever the cleaned price is
   absent or <= 0 or the rating is absent or 0; otherwise it returns
   rating / (price / 10) rounded to two decimals, which is strictly positive,
   and 5 for a 5-star book priced at 10.
   The rounding takes the score of a dear book down to 0.0. *)
C19_ValueScorePositive ==
    unit.fn = "calculate_value_score" =>
        /\ ScoreGuarded(unit.arg) => (unit.ret = 0)
        /\ (~ScoreGuarded(unit.arg) /\ unit.arg.price_clean.kind = "float")
             => (RoundedQuotient(unit.ret, unit.arg) /\ unit.ret > 0)
        /\ (unit.arg = [price_clean |-> Float(1000), rating |-> Some(5)])
             => (unit.ret = 500)

(* C19 amended: calculate_value_score returns 0 whenever the cleaned price is
   absent or <= 0 or the rating is absent or 0, so it never divides by zero;
   otherwise it returns rating / (price / 10) rounded to two decimals, which
   is never negative, is strictly positive when the price is below
   2000 * rating and is 0.0 when the price is above 2000 * rating; it is 5
   for a 5-star book priced at 10. *)
C19_ValueScore ==
    unit.fn = "calculate_value_score" =>
        /\ ScoreGuarded(unit.arg) => (unit.ret = 0)
        /\ (~ScoreGuarded(unit.arg) /\ unit.arg.price_clean.kind = "float")
             => /\ RoundedQuotient(unit.ret, unit.arg)
                /\ unit.ret >= 0
                /\ (unit.arg.price_clean.cents < 200000 * unit.arg.rating[1])
                     => (unit.ret > 0)
                /\ (unit.arg.price_clean.cents > 200000 * unit.arg.rating[1])
                     => (unit.ret = 0)
        /\ (unit.arg = [price_clean |-> Float(1000), rating |-> Some(5)])
             => (unit.ret = 500)

\* A one-star book priced at 2500.00 scores 0.0
C19_Witness ==
    /\ unit.fn = "calculate_value_score"
    /\ unit.arg = [price_clean |-> Float(250000), rating |-> Some(1)]
    /\ unit.ret = 0

====
